---- MODULE Spec2Model ----
(***************************************************************************)
(* Model of github.com/simplely77/workerpool: the pool lifecycle manager   *)
(* (Run, Stop, Resize, Submit), the worker loop (select, consume, recover) *)
(* and the priority merge queue over the configured backends.              *)
(***************************************************************************)
EXTENDS Integers, Sequences, FiniteSets, TLC

(* ---------------------------- bounds ----------------------------------- *)
MaxWorkers == 3      \* worker objects newWorker may allocate in one run
MaxTasks == 2        \* calls of Submit that reach a backend's Enqueue
MaxStops == 1        \* pool Stops whose goroutines are alive at the same time
MaxQueue == 2        \* capacity of a backend (NewMemoryTaskQueue(capacity))
MaxSize == 2         \* largest configured conf.WorkerSize
MaxResize == 3       \* largest argument of Resize

(* ---------------------------- inputs ----------------------------------- *)
QueueNames == {"high", "low"}
DefaultQueue == "default"   \* the queue NewTask names when no option sets one
Priorities == {-1, 1}
Payloads == {"A", "B"}
Keys == {"task", "boom", "nokey"}
Callers == {"c1", "c2"}
Hour == 3600

WorkerIds == 1..MaxWorkers
StopIds == 1..MaxStops

VARIABLES
    conf,       \* WorkerPoolConfig: WorkerSize, TaskQueues, TaskQueuePriority, priorityTaskQueue
    queues,     \* content of each backend of conf.TaskQueues, oldest first
    pRunning,   \* workerPool.running
    workers,    \* workerPool.workers: backing array and length
    mutex,      \* workerPool.mutex: the caller holding it, or "free"
    nextW,      \* number of worker objects allocated so far
    wRunning,   \* worker.running
    wStopCh,    \* worker.stopCh: "open" or "closed"
    wPc,        \* position of the worker's goroutine
    wIdx,       \* index of the scan of priorityTaskQueue.Dequeue
    wTask,      \* task the goroutine holds between Dequeue and the handler's return
    warned,     \* the last line worker.Run logged with Logger.Warn: worker, error, parity of the line count
    cst,        \* per caller: the pool operation in progress and its locals
    stoppers,   \* per pool Stop that won the flag: its goroutines calling worker.Stop
    accepted,   \* the tasks whose Enqueue returned nil, in order of acceptance
    handled,    \* per task: how many times a worker dispatched it
    sub,        \* the last call of Submit: arguments, task enqueued, result
    ret         \* the last return of Run, Stop or Resize
vars == <<conf, queues, pRunning, workers, mutex, nextW, wRunning, wStopCh, wPc,
          wIdx, wTask, warned, cst, stoppers, accepted, handled,
          sub, ret>>

(* ---------------------------- tasks ------------------------------------ *)
\* Task and its embedded TaskOptions; id 0 is the nil task.
NoTask == [id |-> 0, key |-> "", payload |-> "", timeout |-> 0, queue |-> ""]

\* NewTask(key, opts...) with the defaults of TaskOptions, before opts.
NewTask(id, key) ==
    [id |-> id, key |-> key, payload |-> "", timeout |-> Hour, queue |-> DefaultQueue]

WithTaskPayload(p) == [tag |-> "payload", v |-> p]
WithTaskQueue(q) == [tag |-> "queue", v |-> q]

\* one option function applied to the options of t
ApplyOne(t, opt) ==
    IF opt.tag = "payload" THEN [t EXCEPT !.payload = opt.v]
    ELSE [t EXCEPT !.queue = opt.v]

\* TaskOptions.Apply / the loop of Submit: options applied left to right
RECURSIVE Apply(_, _)
Apply(t, opts) ==
    IF opts = <<>> THEN t ELSE Apply(ApplyOne(t, Head(opts)), Tail(opts))

\* the handler registry: "task" returns nil, "boom" panics, nothing else is registered
taskHandler(key) ==
    IF key = "task" THEN "returns" ELSE IF key = "boom" THEN "panics" ELSE "nil"

(* ---------------------------- priority merge queue --------------------- *)
\* conf.TaskQueuePriority[name]: a missing entry reads as the zero value
PriorityOf(prio, name) == IF name \in DOMAIN prio THEN prio[name] ELSE 0

\* a comparison that sorts the backends by ascending priority
lessAscending(pi, pj) == pi < pj

\* the comparison handed to sort.Slice
less(pi, pj) == pi > pj

\* the sequences over all of S without repetition
Perms(S) ==
    {s \in [1..Cardinality(S) -> S] : \A i, j \in DOMAIN s : i # j => s[i] # s[j]}

\* newPriorityTaskQueue: sort.Slice is not stable and the map is iterated in
\* any order, so every arrangement that less leaves sorted can come out
newPriorityTaskQueue(names, prio) ==
    {s \in Perms(names) :
        \A i, j \in DOMAIN s :
            i < j => ~less(PriorityOf(prio, s[j]), PriorityOf(prio, s[i]))}

\* the partial priority maps over the queue names
PriorityMaps ==
    UNION {[D -> Priorities] : D \in SUBSET QueueNames}

\* NewWorkerPool: every configuration it can return for the given worker sizes
NewWorkerPool(sizes) ==
    UNION {{[WorkerSize |-> n, TaskQueues |-> Q, TaskQueuePriority |-> P,
             priorityTaskQueue |-> s] :
                n \in sizes, s \in newPriorityTaskQueue(Q, P)} :
            Q \in (SUBSET QueueNames) \ {{}}, P \in PriorityMaps}

(* ---------------------------- the worker slice ------------------------- *)
\* a slice: its backing array (0 is a nil slot) and its length; cap is Len(arr)
NilSlice == [arr |-> <<>>, len |-> 0]
Cap(s) == Len(s.arr)

\* append(s, w): in place while len < cap, else a doubled, zeroed new array
AppendSlice(s, w) ==
    IF s.len < Cap(s)
    THEN [arr |-> [s.arr EXCEPT ![s.len + 1] = w], len |-> s.len + 1]
    ELSE LET newcap == IF Cap(s) = 0 THEN 1 ELSE 2 * Cap(s)
         IN [arr |-> [i \in 1..newcap |->
                        IF i <= s.len THEN s.arr[i] ELSE IF i = s.len + 1 THEN w ELSE 0],
             len |-> s.len + 1]

\* the workers the slice holds, index 0 .. len-1
InSlice(s) == {s.arr[i] : i \in 1..s.len}

(* ---------------------------- backends --------------------------------- *)
\* TaskQueue.Enqueue of a bounded FIFO backend: nil, or ErrTaskQueueFull
EnqueueResult(q) == IF Len(q) >= MaxQueue THEN "full" ELSE "nil"
Enqueue(q, t) == IF Len(q) >= MaxQueue THEN q ELSE Append(q, t)

\* TaskQueue.Dequeue of a non-empty backend: the task returned, the content left
DequeueTask(q) == Head(q)
DequeueRest(q) == Tail(q)

(* ---------------------------- worker ----------------------------------- *)
Alive(w) == wPc[w] \in {"select", "scan", "failed", "handle"}

NoWarn == [w |-> 0, err |-> "none", odd |-> FALSE]

\* a loop that logs every error consume returns, ErrTaskQueueEmpty included
WarnsAny(err) == err # "nil"

\* worker.Run's loop: what it logs with Logger.Warn after consume returned err
Warns(err) == err # "nil" /\ err # "empty"

\* a consume without the deferred recover: the panic leaves consume
NotRecovered(r) == r

\* the deferred recover of consume: a panic becomes the error consume returns
Recovered(r) == IF r = "panic" THEN "panic_error" ELSE r

\* a consume that calls the handler without testing it for nil: calling the
\* nil handler panics
DispatchUnchecked(t) ==
    IF taskHandler(t.key) = "returns" THEN "nil" ELSE "panic"

\* consume after a task was dequeued: handler lookup and call
Dispatch(t) ==
    IF taskHandler(t.key) = "nil" THEN "handler_not_found"
    ELSE IF taskHandler(t.key) = "panics" THEN "panic"
    ELSE "nil"

\* the end of a consume cycle that returned err: the Warn, and back to the
\* select; a panic that leaves consume ends the goroutine and the process
EndCycle(w, err) ==
    /\ warned' = IF Warns(err) /\ err # "panic"
                 THEN [w |-> w, err |-> err, odd |-> ~warned.odd] ELSE warned
    /\ wPc' = [wPc EXCEPT ![w] = IF err = "panic" THEN "crashed" ELSE "select"]
    /\ wIdx' = [wIdx EXCEPT ![w] = 0]

\* a loop without the stopCh case: every iteration starts a consume cycle
WorkerSelectBlind(w) ==
    /\ wPc[w] = "select"
    /\ wPc' = [wPc EXCEPT ![w] = "scan"]
    /\ wIdx' = [wIdx EXCEPT ![w] = 1]
    /\ UNCHANGED <<conf, queues, pRunning, workers, mutex, nextW, wRunning, wStopCh,
                   wTask, warned, cst, stoppers, accepted, handled, sub, ret>>

\* the select of worker.Run's loop: stopCh closed ends the goroutine (wg.Done),
\* otherwise the default branch starts a consume cycle
WorkerSelect(w) ==
    /\ wPc[w] = "select"
    /\ IF wStopCh[w] = "closed"
       THEN /\ wPc' = [wPc EXCEPT ![w] = "exited"]
            /\ UNCHANGED wIdx
       ELSE /\ wPc' = [wPc EXCEPT ![w] = "scan"]
            /\ wIdx' = [wIdx EXCEPT ![w] = 1]
    /\ UNCHANGED <<conf, queues, pRunning, workers, mutex, nextW, wRunning, wStopCh,
                   wTask, warned, cst, stoppers, accepted, handled, sub, ret>>

\* priorityTaskQueue.Dequeue, one backend of the scan: a task ends the scan,
\* ErrTaskQueueEmpty moves on to the next backend or ends it after the last
WorkerScan(w) ==
    /\ wPc[w] = "scan"
    /\ LET name == conf.priorityTaskQueue[wIdx[w]]
       IN IF queues[name] # <<>>
          THEN /\ wTask' = [wTask EXCEPT ![w] = DequeueTask(queues[name])]
               /\ queues' = [queues EXCEPT ![name] = DequeueRest(queues[name])]
               /\ wPc' = [wPc EXCEPT ![w] = "handle"]
               /\ UNCHANGED <<wIdx, warned>>
          ELSE /\ IF wIdx[w] < Len(conf.priorityTaskQueue)
                  THEN /\ wIdx' = [wIdx EXCEPT ![w] = wIdx[w] + 1]
                       /\ UNCHANGED <<wPc, warned>>
                  ELSE EndCycle(w, "empty")
               /\ UNCHANGED <<wTask, queues>>
    /\ UNCHANGED <<conf, pRunning, workers, mutex, nextW, wRunning, wStopCh,
                   cst, stoppers, accepted, handled, sub, ret>>

\* priorityTaskQueue.Dequeue: the Dequeue of the backend the scan is at
\* returns a failure other than ErrTaskQueueEmpty; nothing is dequeued
WorkerScanFails(w) ==
    /\ wPc[w] = "scan"
    /\ wPc' = [wPc EXCEPT ![w] = "failed"]
    /\ UNCHANGED <<conf, queues, pRunning, workers, mutex, nextW, wRunning, wStopCh,
                   wIdx, wTask, warned, cst, stoppers, accepted, handled, sub, ret>>

\* a Dequeue that treats every failure of a backend as empty and goes on
\* with the backend of next lower priority
WorkerFailedSkips(w) ==
    /\ wPc[w] = "failed"
    /\ IF wIdx[w] < Len(conf.priorityTaskQueue)
       THEN /\ wIdx' = [wIdx EXCEPT ![w] = wIdx[w] + 1]
            /\ wPc' = [wPc EXCEPT ![w] = "scan"]
            /\ UNCHANGED warned
       ELSE EndCycle(w, "empty")
    /\ UNCHANGED <<conf, queues, pRunning, workers, mutex, nextW, wRunning, wStopCh,
                   wTask, cst, stoppers, accepted, handled, sub, ret>>

\* priorityTaskQueue.Dequeue after a backend failed: the failure is returned
\* at once, consume returns it and worker.Run's loop ends the cycle
WorkerFailed(w) ==
    /\ wPc[w] = "failed"
    /\ EndCycle(w, "dequeue_error")
    /\ UNCHANGED <<conf, queues, pRunning, workers, mutex, nextW, wRunning, wStopCh,
                   wTask, cst, stoppers, accepted, handled, sub, ret>>

\* a consume that looks at stopCh between Dequeue and the handler and leaves
\* with the task in hand when it is closed
WorkerHandleStopFirst(w) ==
    /\ wPc[w] = "handle"
    /\ IF wStopCh[w] = "closed"
       THEN /\ wPc' = [wPc EXCEPT ![w] = "exited"]
            /\ wIdx' = [wIdx EXCEPT ![w] = 0]
            /\ UNCHANGED <<handled, warned>>
       ELSE /\ handled' = [handled EXCEPT ![wTask[w].id] = @ + 1]
            /\ EndCycle(w, Recovered(Dispatch(wTask[w])))
    /\ wTask' = [wTask EXCEPT ![w] = NoTask]
    /\ UNCHANGED <<conf, queues, pRunning, workers, mutex, nextW, wRunning, wStopCh,
                   cst, stoppers, accepted, sub, ret>>

\* consume from the handler lookup to its return, recover included
WorkerHandle(w) ==
    /\ wPc[w] = "handle"
    /\ handled' = [handled EXCEPT ![wTask[w].id] = @ + 1]
    /\ wTask' = [wTask EXCEPT ![w] = NoTask]
    /\ EndCycle(w, Recovered(Dispatch(wTask[w])))
    /\ UNCHANGED <<conf, queues, pRunning, workers, mutex, nextW, wRunning, wStopCh,
                   cst, stoppers, accepted, sub, ret>>

(* ---------------------------- Submit ----------------------------------- *)
NoSubmit == [task |-> NoTask, opts |-> <<>>, res |-> "none", enq |-> NoTask, into |-> "",
             after |-> NoTask]

\* an option loop over the object the caller's pointer names (newTask := task)
AfterOptionsAliased(task, opts) == Apply(task, opts)

\* the object the caller's pointer names after the option loop of Submit:
\* newTask := *task is a value copy and the options write newTask.TaskOptions
AfterOptions(task, opts) == task

\* workerPool.Submit(ctx, task, opts...): the copy newTask gets the options,
\* the lookup and the Enqueue use the pointer task
Submit(task, opts) ==
    LET newTask == Apply(task, opts)
        target == AfterOptions(task, opts).queue
        sent == AfterOptions(task, opts)
    IN /\ IF ~pRunning
          THEN /\ sub' = [task |-> task, opts |-> opts, res |-> "not_running",
                          enq |-> NoTask, into |-> "", after |-> sent]
               /\ UNCHANGED <<queues, accepted>>
          ELSE IF target \notin conf.TaskQueues
          THEN /\ sub' = [task |-> task, opts |-> opts, res |-> "queue_not_found",
                          enq |-> NoTask, into |-> "", after |-> sent]
               /\ UNCHANGED <<queues, accepted>>
          ELSE /\ sub' = [task |-> task, opts |-> opts,
                          res |-> EnqueueResult(queues[target]),
                          enq |-> IF EnqueueResult(queues[target]) = "nil"
                                  THEN sent ELSE NoTask,
                          into |-> target, after |-> sent]
               /\ queues' = [queues EXCEPT ![target] = Enqueue(@, sent)]
               /\ accepted' = IF EnqueueResult(queues[target]) = "nil"
                              THEN Append(accepted, sent) ELSE accepted
       /\ UNCHANGED <<conf, pRunning, workers, mutex, nextW, wRunning, wStopCh, wPc,
                      wIdx, wTask, warned, cst, stoppers, handled, ret>>

(* ---------------------------- worker.Run, worker.Stop ------------------ *)
\* worker.Run on a worker whose flag is false: the CompareAndSwap wins,
\* wg.Add(1), and the goroutine starts at the select
WorkerRun(w) ==
    /\ wRunning' = [wRunning EXCEPT ![w] = TRUE]
    /\ wPc' = [wPc EXCEPT ![w] = "select"]

\* worker.Stop up to wg.Wait: the CompareAndSwap and, when it wins, close(stopCh)
WorkerStopWins(w) == wRunning[w]
WorkerStop(w) ==
    IF WorkerStopWins(w)
    THEN /\ wRunning' = [wRunning EXCEPT ![w] = FALSE]
         /\ wStopCh' = [wStopCh EXCEPT ![w] = "closed"]
    ELSE UNCHANGED <<wRunning, wStopCh>>

\* wg.Wait of worker.Stop returns once the goroutine called wg.Done
Waited(w) == ~Alive(w)

(* ---------------------------- pool callers ----------------------------- *)
Idle == [pc |-> "idle", n |-> 0, i |-> 0, hdr |-> NilSlice, w |-> 0, stop |-> 0]

LiveWorkers == {w \in WorkerIds : Alive(w)}

\* what the caller of Run, Stop or Resize gets back
Return(op, arg, res) == [op |-> op, arg |-> arg, res |-> res]
NoReturn == [op |-> "none", arg |-> 0, res |-> "none"]

(* ---------------------------- Worker called directly ------------------- *)
\* a worker.Run that starts a goroutine without looking at the worker's flag
WorkerRunCallUnchecked(c, w) ==
    /\ cst[c].pc = "idle"
    /\ wRunning' = [wRunning EXCEPT ![w] = TRUE]
    /\ wPc' = [wPc EXCEPT ![w] = IF Alive(w) THEN @ ELSE "select"]
    /\ ret' = Return("worker.Run", w, "nil")
    /\ UNCHANGED <<conf, queues, pRunning, workers, mutex, nextW, wStopCh,
                   wIdx, wTask, warned, cst, stoppers, accepted, handled, sub>>

\* worker.Run called through the Worker interface: a lost CompareAndSwap
\* returns the already-running error; a won one does wg.Add(1) and starts a
\* goroutine at the select. A goroutine started while an earlier one of the
\* same worker is alive finds stopCh closed and leaves at its first select.
WorkerRunCall(c, w) ==
    /\ cst[c].pc = "idle"
    /\ IF wRunning[w]
       THEN /\ ret' = Return("worker.Run", w, "already_running")
            /\ UNCHANGED <<wRunning, wPc>>
       ELSE /\ wRunning' = [wRunning EXCEPT ![w] = TRUE]
            /\ wPc' = [wPc EXCEPT ![w] = IF Alive(w) THEN @ ELSE "select"]
            /\ ret' = Return("worker.Run", w, "nil")
    /\ UNCHANGED <<conf, queues, pRunning, workers, mutex, nextW, wStopCh,
                   wIdx, wTask, warned, cst, stoppers, accepted, handled, sub>>

\* worker.Stop called through the Worker interface: a lost CompareAndSwap
\* returns the not-running error; a won one closes stopCh, which panics when
\* it is closed already, and waits for the goroutine
WorkerStopCall(c, w) ==
    /\ cst[c].pc = "idle"
    /\ IF ~WorkerStopWins(w)
       THEN /\ ret' = Return("worker.Stop", w, "not_running")
            /\ UNCHANGED <<wRunning, wStopCh, cst>>
       ELSE IF wStopCh[w] = "closed"
       THEN /\ wRunning' = [wRunning EXCEPT ![w] = FALSE]
            /\ ret' = Return("worker.Stop", w, "panic")
            /\ UNCHANGED <<wStopCh, cst>>
       ELSE /\ WorkerStop(w)
            /\ cst' = [cst EXCEPT ![c] = [Idle EXCEPT !.pc = "wstop_wait", !.w = w]]
            /\ UNCHANGED ret
    /\ UNCHANGED <<conf, queues, pRunning, workers, mutex, nextW, wPc,
                   wIdx, wTask, warned, stoppers, accepted, handled, sub>>

\* wg.Wait of a worker.Stop called directly returns, Stop returns nil
WorkerStopReturn(c) ==
    /\ cst[c].pc = "wstop_wait"
    /\ Waited(cst[c].w)
    /\ cst' = [cst EXCEPT ![c] = Idle]
    /\ ret' = Return("worker.Stop", cst[c].w, "nil")
    /\ UNCHANGED <<conf, queues, pRunning, workers, mutex, nextW, wRunning, wStopCh, wPc,
                   wIdx, wTask, warned, stoppers, accepted, handled, sub>>

(* ---------------------------- workerPool.Run --------------------------- *)
\* a Run that starts the workers without looking at the pool's flag
RunCallUnchecked(c) ==
    /\ cst[c].pc = "idle"
    /\ pRunning' = TRUE
    /\ cst' = [cst EXCEPT ![c] = [Idle EXCEPT !.pc = "run"]]
    /\ UNCHANGED <<conf, queues, workers, mutex, nextW, wRunning, wStopCh, wPc,
                   wIdx, wTask, warned, stoppers, accepted, handled, sub, ret>>

\* Run: the CompareAndSwap on the pool's flag
RunCall(c) ==
    /\ cst[c].pc = "idle"
    /\ IF pRunning
       THEN /\ ret' = Return("Run", 0, "already_running")
            /\ UNCHANGED <<pRunning, cst>>
       ELSE /\ pRunning' = TRUE
            /\ cst' = [cst EXCEPT ![c] = [Idle EXCEPT !.pc = "run"]]
            /\ UNCHANGED ret
    /\ UNCHANGED <<conf, queues, workers, mutex, nextW, wRunning, wStopCh, wPc,
                   wIdx, wTask, warned, stoppers, accepted, handled, sub>>

\* Run's loop: newWorker, and append reads the slice (no lock is taken)
RunNew(c, maxw) ==
    /\ cst[c].pc = "run"
    /\ nextW < maxw
    /\ nextW' = nextW + 1
    /\ cst' = [cst EXCEPT ![c].pc = "run_append", ![c].w = nextW + 1, ![c].hdr = workers]
    /\ UNCHANGED <<conf, queues, pRunning, workers, mutex, wRunning, wStopCh, wPc,
                   wIdx, wTask, warned, stoppers, accepted, handled, sub, ret>>

\* Run's loop: append writes the slice, worker.Run, and return nil after the last
RunAppend(c) ==
    /\ cst[c].pc = "run_append"
    /\ workers' = AppendSlice(cst[c].hdr, cst[c].w)
    /\ WorkerRun(cst[c].w)
    /\ IF cst[c].i + 1 < conf.WorkerSize
       THEN /\ cst' = [cst EXCEPT ![c] = [Idle EXCEPT !.pc = "run", !.i = cst[c].i + 1]]
            /\ UNCHANGED ret
       ELSE /\ cst' = [cst EXCEPT ![c] = Idle]
            /\ ret' = Return("Run", 0, "nil")
    /\ UNCHANGED <<conf, queues, pRunning, mutex, nextW, wStopCh,
                   wIdx, wTask, warned, stoppers, accepted, handled, sub>>

(* ---------------------------- workerPool.Stop -------------------------- *)
\* one call of Stop past its CompareAndSwap: phase "called" until its goroutine
\* ranged over the slice, then "spawned"; st is the goroutine started per worker
NoStoppers == [phase |-> "free", began |-> {}, st |-> [w \in WorkerIds |-> "none"]]

\* close(done): the goroutine ranged over the slice and wg.Wait returned
Done(id) ==
    /\ stoppers[id].phase = "spawned"
    /\ \A w \in WorkerIds : stoppers[id].st[w] = "none"

FreeStop == {id \in StopIds : stoppers[id].phase = "free"}

\* a Stop that starts the shutdown without looking at the pool's flag
StopCallUnchecked(c) ==
    /\ cst[c].pc = "idle"
    /\ cst' = [cst EXCEPT ![c] = [Idle EXCEPT !.pc = "stop_wait", !.stop = 1]]
    /\ stoppers' = [stoppers EXCEPT ![1] =
            [NoStoppers EXCEPT !.phase = "called",
                               !.began = InSlice(workers) \cap LiveWorkers]]
    /\ pRunning' = FALSE
    /\ UNCHANGED <<conf, queues, workers, mutex, nextW, wRunning, wStopCh, wPc,
                   wIdx, wTask, warned, accepted, handled, sub, ret>>

\* Stop: the CompareAndSwap on the pool's flag
StopCall(c) ==
    /\ cst[c].pc = "idle"
    /\ IF ~pRunning
       THEN /\ ret' = Return("Stop", 0, "not_running")
            /\ UNCHANGED <<pRunning, cst, stoppers>>
       ELSE /\ FreeStop # {}
            /\ LET id == CHOOSE x \in FreeStop : \A y \in FreeStop : x <= y
               IN /\ cst' = [cst EXCEPT ![c] = [Idle EXCEPT !.pc = "stop_wait", !.stop = id]]
                  /\ stoppers' = [stoppers EXCEPT ![id] =
                        [NoStoppers EXCEPT !.phase = "called",
                                           !.began = InSlice(workers) \cap LiveWorkers]]
            /\ pRunning' = FALSE
            /\ UNCHANGED ret
    /\ UNCHANGED <<conf, queues, workers, mutex, nextW, wRunning, wStopCh, wPc,
                   wIdx, wTask, warned, accepted, handled, sub>>

\* Stop's goroutine: the range over p.workers starts one goroutine per worker
StopSpawn(id) ==
    /\ stoppers[id].phase = "called"
    /\ stoppers' = [stoppers EXCEPT ![id].phase = "spawned",
                                    ![id].st = [w \in WorkerIds |->
                                        IF w \in InSlice(workers) THEN "todo" ELSE "none"]]
    /\ UNCHANGED <<conf, queues, pRunning, workers, mutex, nextW, wRunning, wStopCh, wPc,
                   wIdx, wTask, warned, cst, accepted, handled, sub, ret>>

\* a goroutine of Stop calls worker.Stop: a lost CompareAndSwap is logged and
\* the goroutine ends, a won one closes stopCh and waits
StopperStop(id, w) ==
    /\ stoppers[id].st[w] = "todo"
    /\ WorkerStop(w)
    /\ stoppers' = [stoppers EXCEPT ![id].st[w] =
                        IF WorkerStopWins(w) THEN "wait" ELSE "none"]
    /\ UNCHANGED <<conf, queues, pRunning, workers, mutex, nextW, wPc,
                   wIdx, wTask, warned, cst, accepted, handled, sub, ret>>

\* wg.Wait of worker.Stop returns in a goroutine of Stop, which ends
StopperWaited(id, w) ==
    /\ stoppers[id].st[w] = "wait"
    /\ Waited(w)
    /\ stoppers' = [stoppers EXCEPT ![id].st[w] = "none"]
    /\ UNCHANGED <<conf, queues, pRunning, workers, mutex, nextW, wRunning, wStopCh, wPc,
                   wIdx, wTask, warned, cst, accepted, handled, sub, ret>>

\* Stop's select: done is closed, Stop returns nil
StopReturn(c) ==
    /\ cst[c].pc = "stop_wait"
    /\ Done(cst[c].stop)
    /\ cst' = [cst EXCEPT ![c] = Idle]
    /\ stoppers' = [stoppers EXCEPT ![cst[c].stop] = NoStoppers]
    /\ ret' = Return("Stop", 0, "nil")
    /\ UNCHANGED <<conf, queues, pRunning, workers, mutex, nextW, wRunning, wStopCh, wPc,
                   wIdx, wTask, warned, accepted, handled, sub>>

\* Stop's select: GracefulShutdownTimeout elapsed, Stop returns the timeout
\* error; the goroutines it started go on
StopTimeout(c) ==
    /\ cst[c].pc = "stop_wait"
    /\ cst' = [cst EXCEPT ![c] = Idle]
    /\ ret' = Return("Stop", 0, "timeout")
    /\ UNCHANGED <<conf, queues, pRunning, workers, mutex, nextW, wRunning, wStopCh, wPc,
                   wIdx, wTask, warned, stoppers, accepted, handled, sub>>

\* close(done) of a Stop whose caller left with the timeout
StopClose(id) ==
    /\ Done(id)
    /\ \A c \in Callers : cst[c].stop # id
    /\ stoppers' = [stoppers EXCEPT ![id] = NoStoppers]
    /\ UNCHANGED <<conf, queues, pRunning, workers, mutex, nextW, wRunning, wStopCh, wPc,
                   wIdx, wTask, warned, cst, accepted, handled, sub, ret>>

(* ---------------------------- workerPool.Resize ------------------------ *)
\* p.workers[:n]: allowed up to the capacity, a run-time panic beyond it
CanReslice(s, n) == n <= Cap(s)
Reslice(s, n) == [arr |-> s.arr, len |-> n]

\* Resize: the no-op test, then mutex.Lock and the choice of shrink or grow
ResizeCall(c, n) ==
    /\ cst[c].pc = "idle"
    /\ IF n = 0 \/ n = conf.WorkerSize
       THEN /\ ret' = Return("Resize", n, "nil")
            /\ UNCHANGED <<cst, mutex>>
       ELSE /\ mutex = "free"
            /\ mutex' = c
            /\ cst' = [cst EXCEPT ![c] =
                        IF n < conf.WorkerSize
                        THEN [Idle EXCEPT !.pc = "shrink", !.n = n, !.i = n]
                        ELSE [Idle EXCEPT !.pc = "grow", !.n = n, !.i = conf.WorkerSize]]
            /\ UNCHANGED ret
    /\ UNCHANGED <<conf, queues, pRunning, workers, nextW, wRunning, wStopCh, wPc,
                   wIdx, wTask, warned, stoppers, accepted, handled, sub>>

\* the shrink loop at index i < conf.WorkerSize: p.workers[i].Stop() when the
\* slice has an index i; a lost CompareAndSwap is logged and the loop goes on
ShrinkStop(c) ==
    /\ cst[c].pc = "shrink"
    /\ cst[c].i < conf.WorkerSize
    /\ IF cst[c].i < workers.len
       THEN LET w == workers.arr[cst[c].i + 1]
            IN /\ WorkerStop(w)
               /\ cst' = [cst EXCEPT ![c] =
                            IF WorkerStopWins(w)
                            THEN [@ EXCEPT !.pc = "shrink_wait", !.w = w]
                            ELSE [@ EXCEPT !.i = @ + 1]]
       ELSE /\ cst' = [cst EXCEPT ![c].i = @ + 1]
            /\ UNCHANGED <<wRunning, wStopCh>>
    /\ UNCHANGED <<conf, queues, pRunning, workers, mutex, nextW, wPc,
                   wIdx, wTask, warned, stoppers, accepted, handled, sub, ret>>

\* wg.Wait of the worker.Stop called by the shrink loop returns
ShrinkWaited(c) ==
    /\ cst[c].pc = "shrink_wait"
    /\ Waited(cst[c].w)
    /\ cst' = [cst EXCEPT ![c] = [@ EXCEPT !.pc = "shrink", !.w = 0, !.i = @ + 1]]
    /\ UNCHANGED <<conf, queues, pRunning, workers, mutex, nextW, wRunning, wStopCh, wPc,
                   wIdx, wTask, warned, stoppers, accepted, handled, sub, ret>>

\* after the shrink loop: p.workers = p.workers[:workerSize], the deferred
\* Unlock, return nil; the slice expression panics beyond the capacity
ShrinkEnd(c) ==
    /\ cst[c].pc = "shrink"
    /\ cst[c].i >= conf.WorkerSize
    /\ mutex' = "free"
    /\ cst' = [cst EXCEPT ![c] = Idle]
    /\ IF CanReslice(workers, cst[c].n)
       THEN /\ workers' = Reslice(workers, cst[c].n)
            /\ ret' = Return("Resize", cst[c].n, "nil")
       ELSE /\ ret' = Return("Resize", cst[c].n, "panic")
            /\ UNCHANGED workers
    /\ UNCHANGED <<conf, queues, pRunning, nextW, wRunning, wStopCh, wPc,
                   wIdx, wTask, warned, stoppers, accepted, handled, sub>>

\* the grow loop: newWorker, and append reads the slice
GrowNew(c, maxw) ==
    /\ cst[c].pc = "grow"
    /\ nextW < maxw
    /\ nextW' = nextW + 1
    /\ cst' = [cst EXCEPT ![c].pc = "grow_append", ![c].w = nextW + 1, ![c].hdr = workers]
    /\ UNCHANGED <<conf, queues, pRunning, workers, mutex, wRunning, wStopCh, wPc,
                   wIdx, wTask, warned, stoppers, accepted, handled, sub, ret>>

\* the grow loop: append writes the slice, worker.Run, and after the last
\* worker the deferred Unlock and return nil
GrowAppend(c) ==
    /\ cst[c].pc = "grow_append"
    /\ workers' = AppendSlice(cst[c].hdr, cst[c].w)
    /\ WorkerRun(cst[c].w)
    /\ IF cst[c].i + 1 < cst[c].n
       THEN /\ cst' = [cst EXCEPT ![c] =
                        [@ EXCEPT !.pc = "grow", !.i = @ + 1, !.w = 0, !.hdr = NilSlice]]
            /\ UNCHANGED <<ret, mutex>>
       ELSE /\ cst' = [cst EXCEPT ![c] = Idle]
            /\ mutex' = "free"
            /\ ret' = Return("Resize", cst[c].n, "nil")
    /\ UNCHANGED <<conf, queues, pRunning, nextW, wStopCh,
                   wIdx, wTask, warned, stoppers, accepted, handled, sub>>

(* ---------------------------- specifications --------------------------- *)
\* the state NewWorkerPool leaves: nothing runs, every backend is empty
InitWith(confs) ==
    /\ conf \in confs
    /\ queues = [q \in conf.TaskQueues |-> <<>>]
    /\ pRunning = FALSE
    /\ workers = NilSlice
    /\ mutex = "free"
    /\ nextW = 0
    /\ wRunning = [w \in WorkerIds |-> FALSE]
    /\ wStopCh = [w \in WorkerIds |-> "open"]
    /\ wPc = [w \in WorkerIds |-> "new"]
    /\ wIdx = [w \in WorkerIds |-> 0]
    /\ wTask = [w \in WorkerIds |-> NoTask]
    /\ warned = NoWarn
    /\ cst = [c \in Callers |-> Idle]
    /\ stoppers = [id \in StopIds |-> NoStoppers]
    /\ accepted = <<>>
    /\ handled = [id \in 1..MaxTasks |-> 0]
    /\ sub = NoSubmit
    /\ ret = NoReturn

\* the tasks a caller builds with NewTask(key, opts...) for its next Submit
CallerTasks(keys, qnames, payloads) ==
    {[NewTask(Len(accepted) + 1, k) EXCEPT !.queue = q, !.payload = p] :
        k \in keys, q \in qnames, p \in payloads}

\* the option lists of a Submit call
OptionLists(qnames, payloads) ==
    LET O == {WithTaskQueue(q) : q \in qnames} \cup {WithTaskPayload(p) : p \in payloads}
    IN {<<>>} \cup {<<o>> : o \in O}

SubmitAny(maxt, keys, qnames, payloads, onames, opayloads) ==
    /\ Len(accepted) < maxt
    /\ \E t \in CallerTasks(keys, qnames, payloads),
          opts \in OptionLists(onames, opayloads) : Submit(t, opts)

WorkerStep ==
    \E w \in WorkerIds : WorkerSelect(w) \/ WorkerScan(w) \/ WorkerHandle(w)

\* the consume cycles of workers that find every backend empty
WorkerPoll == \E w \in WorkerIds : WorkerSelect(w) \/ WorkerScan(w)

WorkerFault == \E w \in WorkerIds : WorkerScanFails(w) \/ WorkerFailed(w)

RunStep(C, maxw) == \E c \in C : RunCall(c) \/ RunNew(c, maxw) \/ RunAppend(c)

StopStep(C) ==
    \/ \E c \in C : StopCall(c) \/ StopReturn(c) \/ StopTimeout(c)
    \/ \E id \in StopIds : StopSpawn(id) \/ StopClose(id)
    \/ \E id \in StopIds, w \in WorkerIds : StopperStop(id, w) \/ StopperWaited(id, w)

ResizeStep(C, maxw) ==
    \/ \E c \in C, n \in 0..MaxResize : ResizeCall(c, n)
    \/ \E c \in C : ShrinkStop(c) \/ ShrinkWaited(c) \/ ShrinkEnd(c)
    \/ \E c \in C : GrowNew(c, maxw) \/ GrowAppend(c)

\* a pool with the one backend "high" and no priority entry
OneQueue(sizes) ==
    {c \in NewWorkerPool(sizes) : c.TaskQueues = {"high"} /\ c.TaskQueuePriority = <<>>}

\* Run, Stop and Resize called from two threads at once, workers polling
Init == InitWith(OneQueue(1..MaxSize))

Next ==
    \/ WorkerPoll
    \/ RunStep(Callers, MaxWorkers - 1)
    \/ StopStep(Callers)
    \/ ResizeStep(Callers, MaxWorkers - 1)

Spec == Init /\ [][Next]_vars

\* Run, Stop and Resize called one after the other from one thread
SeqNext ==
    \/ WorkerPoll
    \/ RunStep({"c1"}, MaxWorkers)
    \/ StopStep({"c1"})
    \/ ResizeStep({"c1"}, MaxWorkers)

SeqSpec == Init /\ [][SeqNext]_vars

\* every configuration of backends and priorities; a started pool serving
\* Submit calls with and without options, backends that may fail
QueueInit == InitWith(NewWorkerPool({1}))

QueueNext ==
    \/ SubmitAny(MaxTasks, {"task"}, QueueNames \cup {DefaultQueue}, {""}, QueueNames, Payloads)
    \/ WorkerStep
    \/ WorkerFault
    \/ RunStep({"c1"}, 1)

QueueSpec == QueueInit /\ [][QueueNext]_vars

\* a pool started, stopped and started again from one thread while tasks with
\* a good handler, a panicking handler and no handler are submitted and served
TaskInit == InitWith(OneQueue(1..MaxSize))

TaskNext ==
    \/ SubmitAny(MaxTasks, Keys, {"high"}, {""}, {}, {})
    \/ WorkerStep
    \/ WorkerFault
    \/ RunStep({"c1"}, MaxWorkers - 1)
    \/ StopStep({"c1"})

TaskSpec == TaskInit /\ [][TaskNext]_vars

\* Run called from two threads at once on a pool that was never started,
\* while tasks are submitted and served
RunNext ==
    \/ SubmitAny(MaxTasks, {"task"}, {"high"}, {""}, {}, {})
    \/ WorkerStep
    \/ RunStep(Callers, MaxWorkers - 1)

RunSpec == Init /\ [][RunNext]_vars

\* Stop called from two threads at once on a pool that one of them started
StopNext ==
    \/ WorkerPoll
    \/ RunStep({"c1"}, MaxSize)
    \/ StopStep(Callers)

StopSpec == Init /\ [][StopNext]_vars

\* workers built with newWorker and driven through the Worker interface by
\* two threads, in any order of Run and Stop
WorkerNext ==
    \/ WorkerPoll
    \/ \E c \in Callers, w \in WorkerIds : WorkerRunCall(c, w) \/ WorkerStopCall(c, w)
    \/ \E c \in Callers : WorkerStopReturn(c)

WorkerSpec == Init /\ [][WorkerNext]_vars

\* the steps of the goroutine of worker w: the scheduler runs it, and its
\* Dequeue (bounded by the dequeue timeout) and its handler return
WorkerCycle(w) == WorkerSelect(w) \/ WorkerScan(w) \/ WorkerFailed(w) \/ WorkerHandle(w)

\* a pool started, stopped and started again from one thread while tasks
\* whose handler returns are submitted and served
ShutdownNext ==
    \/ SubmitAny(MaxTasks, {"task"}, {"high"}, {""}, {}, {})
    \/ WorkerStep
    \/ WorkerFault
    \/ RunStep({"c1"}, MaxWorkers - 1)
    \/ StopStep({"c1"})

\* every worker goroutine and every goroutine of a pool Stop is scheduled
\* again and again: a cycle in progress ends, a wg.Wait whose counter
\* reached zero returns
ShutdownSpec ==
    /\ Init /\ [][ShutdownNext]_vars
    /\ \A w \in WorkerIds : WF_vars(WorkerCycle(w))
    /\ \A id \in StopIds, w \in WorkerIds : WF_vars(StopperWaited(id, w))

(* ---------------------------- claims ----------------------------------- *)
Pri(q) == PriorityOf(conf.TaskQueuePriority, q)
Scanned(w) == {conf.priorityTaskQueue[j] : j \in 1..(wIdx[w] - 1)}

\* the step in which the Dequeue of worker w returns a task
DequeueReturnsTask(w) == wPc[w] = "scan" /\ wPc'[w] = "handle"
\* the step in which the Dequeue of worker w returns ErrTaskQueueEmpty
DequeueReturnsEmpty(w) == wPc[w] = "scan" /\ wPc'[w] = "select" /\ warned' = warned

\* C1: when Dequeue of the priority merge queue returns a task, the task is
\* the head of the backend the scan is at, only that backend changes, and
\* every backend of strictly higher priority (no entry counts as 0) was
\* scanned before it and reported empty; when it returns ErrTaskQueueEmpty
\* the scan has visited every backend and each reported empty.
C1_PriorityDequeue ==
    [][\A w \in WorkerIds :
        /\ DequeueReturnsTask(w) =>
              LET b == conf.priorityTaskQueue[wIdx[w]]
              IN /\ queues[b] # <<>>
                 /\ wTask'[w] = Head(queues[b])
                 /\ queues' = [queues EXCEPT ![b] = Tail(@)]
                 /\ \A q \in conf.TaskQueues : Pri(q) > Pri(b) => q \in Scanned(w)
        /\ DequeueReturnsEmpty(w) =>
              /\ Scanned(w) \cup {conf.priorityTaskQueue[wIdx[w]]} = conf.TaskQueues
              /\ queues[conf.priorityTaskQueue[wIdx[w]]] = <<>>
              /\ queues' = queues]_vars

\* a task taken from the second backend, of priority -1, after the first
\* backend, which has no priority entry, reported empty
C1_Witness ==
    \E w \in WorkerIds :
        /\ wPc[w] = "handle"
        /\ wIdx[w] = 2
        /\ conf.priorityTaskQueue[1] \notin DOMAIN conf.TaskQueuePriority
        /\ Pri(conf.priorityTaskQueue[2]) = -1
        /\ wTask[w].queue = conf.priorityTaskQueue[2]

\* the copy of the caller's task with the options of the last Submit applied
Intended == Apply(sub.task, sub.opts)

\* C2: a Submit on a running pool whose option-applied queue name is a
\* configured backend hands its task to that backend's Enqueue and returns
\* its result, and the task enqueued is the option-applied copy.
C2_SubmitRoutesAppliedCopy ==
    (sub.res \notin {"none", "not_running"} /\ Intended.queue \in conf.TaskQueues) =>
        /\ sub.into = Intended.queue
        /\ sub.res \in {"nil", "full"}
        /\ sub.res = "nil" => sub.enq = Intended

\* C10: a Submit that finds the pool not running, or whose target queue (the
\* queue name after the options) is not a configured backend, returns an
\* error and enqueues nothing.
C10_SubmitErrors ==
    /\ sub.res = "not_running" => sub.enq = NoTask /\ sub.into = ""
    /\ (sub.res # "none" /\ Intended.queue \notin conf.TaskQueues) =>
            /\ sub.res \in {"not_running", "queue_not_found"}
            /\ sub.enq = NoTask
            /\ sub.into = ""

DequeueReturnsFailure(w) == wPc[w] = "failed" /\ wPc'[w] # "failed"

\* C12: a backend's failure other than empty ends the scan at that backend:
\* from the failure to the return of Dequeue nothing is removed from any
\* backend by this worker, no backend after the failed one is visited, and
\* the Dequeue returns no task.
C12_FailureEndsScan ==
    [][\A w \in WorkerIds :
        /\ (wPc[w] = "scan" /\ wPc'[w] = "failed") =>
              queues' = queues /\ wTask'[w] = NoTask /\ wIdx'[w] = wIdx[w]
        /\ DequeueReturnsFailure(w) =>
              /\ wPc'[w] = "select"
              /\ wIdx'[w] = 0
              /\ wTask'[w] = NoTask
              /\ queues' = queues]_vars

\* the scan of a worker ended with the failure of a backend while the
\* backend of lowest priority still holds a task
C12_Witness ==
    \E w \in WorkerIds :
        /\ warned = [w |-> w, err |-> "dequeue_error", odd |-> TRUE]
        /\ wPc[w] = "select"
        /\ Len(conf.priorityTaskQueue) = 2
        /\ queues[conf.priorityTaskQueue[2]] # <<>>

\* the step in which the Dequeue of worker w returns, every backend having
\* reported empty
ScanFoundNothing(w) == wPc[w] = "scan" /\ wPc'[w] = "select"

\* C16: a consume cycle whose Dequeue found every backend empty logs nothing
\* and the goroutine is back at the select; a cycle whose Dequeue returned
\* another failure logs it with one Warn, in the step that ends the cycle,
\* and the goroutine is back at the select with the worker still running;
\* no other step of the select or of the scan logs anything.
C16_EmptySilentFailureWarned ==
    [][\A w \in WorkerIds :
        /\ ScanFoundNothing(w) =>
              /\ warned' = warned
              /\ wRunning'[w] = wRunning[w]
        /\ DequeueReturnsFailure(w) =>
              /\ warned' = [w |-> w, err |-> "dequeue_error", odd |-> ~warned.odd]
              /\ wPc'[w] = "select"
              /\ wRunning'[w] = wRunning[w]
        /\ (wPc[w] \in {"select", "scan"} /\ <<wPc'[w], wIdx'[w]>> # <<wPc[w], wIdx[w]>>) =>
              warned' = warned]_vars

\* the worker that logged a dequeue failure holds, in a later cycle, the one
\* task accepted so far
C16_Witness ==
    \E w \in WorkerIds :
        /\ warned = [w |-> w, err |-> "dequeue_error", odd |-> TRUE]
        /\ wPc[w] = "handle"
        /\ Len(accepted) = 1

\* where an accepted task can be: the places of a backend, a worker's hand
QueuePlaces(id) ==
    {p \in conf.TaskQueues \X (1..MaxQueue) :
        p[2] <= Len(queues[p[1]]) /\ queues[p[1]][p[2]].id = id}
Holders(id) == {w \in WorkerIds : wTask[w].id = id}

\* C3: every accepted task is in exactly one place: once in a backend, or in
\* the hand of one live worker that is about to dispatch it, or dispatched
\* exactly once; a task never accepted is nowhere; so once the backends are
\* drained every accepted task was dispatched exactly once, across Stop and Run.
C3_NoLossNoDuplicate ==
    /\ \A id \in 1..MaxTasks :
          Cardinality(QueuePlaces(id)) + Cardinality(Holders(id)) + handled[id]
            = IF id <= Len(accepted) THEN 1 ELSE 0
    /\ \A w \in WorkerIds : wTask[w] # NoTask => wPc[w] = "handle"
    /\ ((\A q \in conf.TaskQueues : queues[q] = <<>>) /\ (\A w \in WorkerIds : wTask[w] = NoTask))
            => \A id \in 1..Len(accepted) : handled[id] = 1

\* a task accepted before a Stop (a later Submit was refused by the stopped
\* pool) is in the hand of the worker the second Run started
C3_Witness ==
    /\ conf.WorkerSize = 1
    /\ sub.res = "not_running"
    /\ wPc[1] = "exited"
    /\ wPc[2] = "handle"
    /\ wTask[2].id = 1

\* the step in which worker w returns from the handler call of consume
HandlerReturns(w) == wPc[w] = "handle" /\ wPc'[w] # "handle"

\* C8: a handler that panics ends its consume cycle with an error that
\* worker.Run logs; the goroutine is back at the select, the worker's flag is
\* unchanged and the task counts as dispatched; no goroutine ever crashes.
C8_PanicRecovered ==
    [][\A w \in WorkerIds :
        /\ wPc'[w] # "crashed"
        /\ (HandlerReturns(w) /\ taskHandler(wTask[w].key) = "panics") =>
              /\ wPc'[w] = "select"
              /\ warned' = [w |-> w, err |-> "panic_error", odd |-> ~warned.odd]
              /\ wRunning'[w] = wRunning[w]
              /\ handled'[wTask[w].id] = handled[wTask[w].id] + 1]_vars

\* the worker whose handler panicked last holds the next task, one with a
\* good handler
C8_Witness ==
    \E w \in WorkerIds :
        /\ warned.w = w
        /\ warned.err = "panic_error"
        /\ wPc[w] = "handle"
        /\ taskHandler(wTask[w].key) = "returns"

\* C9: a task whose key has no handler ends its consume cycle with
\* ErrTaskHandlerNotFound, which worker.Run logs with Warn; the goroutine is
\* back at the select and the worker's flag is unchanged.
C9_HandlerNotFound ==
    [][\A w \in WorkerIds :
        (HandlerReturns(w) /\ taskHandler(wTask[w].key) = "nil") =>
              /\ wPc'[w] = "select"
              /\ warned' = [w |-> w, err |-> "handler_not_found", odd |-> ~warned.odd]
              /\ wRunning'[w] = wRunning[w]]_vars

\* after the handler-not-found warning a task submitted later, with a
\* registered key, was handled
C9_Witness ==
    /\ warned.err = "handler_not_found"
    /\ Len(accepted) = 2
    /\ taskHandler(accepted[1].key) = "nil"
    /\ taskHandler(accepted[2].key) = "returns"
    /\ handled[1] = 1
    /\ handled[2] = 1

\* the step in which a call of worker.Run or worker.Stop on w returns res
\* (a Stop that returns nil returns from its wait)
WorkerReturns(op, w, res) ==
    /\ ret' = Return(op, w, res)
    /\ IF op = "worker.Stop" /\ res = "nil"
       THEN \E c \in Callers : cst[c].pc = "wstop_wait" /\ cst'[c].pc = "idle"
       ELSE cst' = cst /\ (ret' # ret \/ wRunning'[w] # wRunning[w])

\* C17: worker.Run on a worker whose flag is set returns the already-running
\* error and starts no goroutine; worker.Stop on a worker that was never run
\* returns the not-running error and leaves stopCh open; a worker.Run that
\* returns nil found the flag clear and set it, so of two Run calls with no
\* Stop between them one is refused.
C17_WorkerMisuseReported ==
    [][\A w \in WorkerIds :
        /\ (wRunning[w] /\ \E res \in {"nil", "already_running"} :
                                WorkerReturns("worker.Run", w, res)) =>
              /\ ret'.res = "already_running"
              /\ UNCHANGED <<wPc, wRunning, wStopCh>>
        /\ WorkerReturns("worker.Run", w, "nil") => ~wRunning[w] /\ wRunning'[w]
        /\ (wPc[w] = "new" /\ \E res \in {"nil", "not_running", "panic"} :
                                WorkerReturns("worker.Stop", w, res)) =>
              /\ ret'.res = "not_running"
              /\ wStopCh'[w] = "open"
              /\ UNCHANGED <<wPc, wRunning, wStopCh>>]_vars

\* a second Run on a running worker was refused, its goroutine polls, and
\* another worker was never run
C17_Witness ==
    \E w \in WorkerIds :
        /\ ret = Return("worker.Run", w, "already_running")
        /\ wRunning[w]
        /\ wPc[w] = "scan"
        /\ \E v \in WorkerIds : wPc[v] = "new" /\ wStopCh[v] = "open"

\* the worker.Stop called on w by a goroutine of pool Stop id won the
\* CompareAndSwap and has not returned
StopWaits(id, w) == stoppers[id].st[w] = "wait"

\* C21: a worker.Stop that wins the flag clears it and closes stopCh in the
\* step that wins, and returns only when the worker's goroutine has exited;
\* the goroutine exits only at its select, with stopCh closed, and a cycle
\* that holds a task runs its handler to the end whatever stopCh is; with
\* the goroutines scheduled and every cycle ending, each such Stop returns.
C21_StopReturnsAfterExit ==
    /\ [][\A w \in WorkerIds :
            /\ \A id \in StopIds :
                /\ (~StopWaits(id, w) /\ StopWaits(id, w)') =>
                        wRunning[w] /\ ~wRunning'[w] /\ wStopCh'[w] = "closed"
                /\ (StopWaits(id, w) /\ ~StopWaits(id, w)') => ~Alive(w) /\ ~Alive(w)'
            /\ (Alive(w) /\ ~Alive(w)') => wPc[w] = "select" /\ wStopCh[w] = "closed"
            /\ (wPc[w] = "handle" /\ wPc'[w] # "handle") =>
                    wPc'[w] = "select" /\ handled'[wTask[w].id] = handled[wTask[w].id] + 1]_vars
    /\ \A id \in StopIds, w \in WorkerIds : StopWaits(id, w) ~> ~StopWaits(id, w)

\* a worker.Stop has closed stopCh and waits while the worker's goroutine is
\* inside a handler
C21_Witness ==
    \E id \in StopIds, w \in WorkerIds :
        /\ StopWaits(id, w)
        /\ wStopCh[w] = "closed"
        /\ wPc[w] = "handle"
        /\ taskHandler(wTask[w].key) = "returns"

\* the step in which a Resize(k) call returns nil to its caller
ResizeReturnsNil(k) ==
    /\ ret' = Return("Resize", k, "nil")
    /\ \/ ret' # ret
       \/ \E c \in Callers : cst[c].pc \in {"shrink", "grow_append"} /\ cst'[c].pc = "idle"

\* C4: on a running pool, when Resize(k) returns nil the number of live
\* workers is k (stated for k >= 1; Resize(0) is specified as a no-op).
C4_ResizeYieldsK ==
    [][\A k \in 1..MaxResize :
        (pRunning /\ ResizeReturnsNil(k)) => Cardinality(LiveWorkers') = k]_vars

\* the step in which caller c calls Resize(n) and goes on to shrink or grow
ResizeStarts(c, n) ==
    cst[c].pc = "idle" /\ cst'[c].pc \in {"shrink", "grow"} /\ cst'[c].n = n

\* the pool's current size is n: n workers in the slice, all of them live
CurrentSize(n) == workers.len = n /\ Cardinality(LiveWorkers) = n

\* C13: Resize(n) with n zero or n the pool's current size returns nil at
\* once: it does not go on to shrink or grow, and the step that returns
\* leaves the slice, the workers' flags, stop signals and goroutines as
\* they were and allocates no worker.
C13_ResizeNoOp ==
    [][\A c \in Callers, n \in 0..MaxResize :
        (n = 0 \/ CurrentSize(n)) =>
            /\ ~ResizeStarts(c, n)
            /\ (cst' = cst /\ ret' # ret /\ ret' = Return("Resize", n, "nil")) =>
                    UNCHANGED <<workers, wRunning, wStopCh, wPc, nextW, mutex>>]_vars

\* the callers inside Run, past its CompareAndSwap
InRun == {c \in Callers : cst[c].pc \in {"run", "run_append"}}

\* C14: of the Run calls made concurrently on a stopped pool one wins: at
\* most one caller is past the CompareAndSwap, the workers are spawned once
\* (conf.WorkerSize of them, each once in the slice, when the winner has
\* returned), and a call that returns the already-running error starts and
\* changes nothing.
C14_OneRunWins ==
    /\ [](/\ Cardinality(InRun) <= 1
          /\ nextW <= conf.WorkerSize
          /\ (InRun # {}) => pRunning
          /\ (pRunning /\ InRun = {}) =>
                /\ ret.res = "nil" \/ ret.res = "already_running"
                /\ workers.len = conf.WorkerSize
                /\ InSlice(workers) = 1..conf.WorkerSize
                /\ LiveWorkers = 1..conf.WorkerSize)
    /\ [][(ret' # ret /\ ret'.res = "already_running") =>
            /\ pRunning /\ pRunning'
            /\ UNCHANGED <<cst, workers, nextW, wRunning, wStopCh, wPc>>]_vars

\* one Run was refused while the other, the winner, is starting its second worker
C14_Witness ==
    /\ ret = Return("Run", 0, "already_running")
    /\ \E c \in Callers : cst[c].pc = "run_append" /\ cst[c].i = 1

\* the callers inside Stop, past its CompareAndSwap
InStop == {c \in Callers : cst[c].pc = "stop_wait"}

\* the pool was started at most once: no second Run has allocated a worker
FirstRun == nextW <= conf.WorkerSize

Quiet == \A c \in Callers : cst[c].pc = "idle"

\* C18: on a running pool with no call in progress, when the last call that
\* returned is a Resize(k) with k >= 1 that returned nil, whatever Resize
\* calls came before it, the number of live workers is k.
C18_LastResizeDecides ==
    (pRunning /\ Quiet /\ ret.op = "Resize" /\ ret.res = "nil" /\ ret.arg >= 1) =>
        Cardinality(LiveWorkers) = ret.arg

\* the step in which the shrinking Resize of caller c returns nil
ShrinkReturnsNil(c) ==
    cst[c].pc = "shrink" /\ cst'[c].pc = "idle" /\ ret'.res = "nil"

\* C19: when a shrinking Resize(n) on a running pool returns nil, the slice
\* holds n workers, each of them running with a live goroutine, every worker
\* it removed from the slice is stopped and its goroutine has exited, and no
\* worker outside the slice is running.
C19_ShrinkDropsStoppedTail ==
    [][\A c \in Callers :
        (pRunning /\ ShrinkReturnsNil(c)) =>
            /\ workers'.len = cst[c].n
            /\ \A w \in InSlice(workers') : wRunning'[w] /\ Alive(w)'
            /\ \A w \in InSlice(workers) \ InSlice(workers') : ~wRunning'[w] /\ ~Alive(w)'
            /\ \A w \in WorkerIds \ InSlice(workers') : ~wRunning'[w] /\ ~Alive(w)']_vars

\* no shutdown is in progress: every goroutine of every Stop has ended
NoShutdown == \A id \in StopIds : stoppers[id].phase = "free"

\* C20: whenever the pool's flag is false, no call of Run, Stop or Resize is
\* in progress and no goroutine of a Stop is left, no worker has a live
\* goroutine or a set running flag.
C20_StoppedPoolHasNoWorkers ==
    (~pRunning /\ Quiet /\ NoShutdown) =>
        \A w \in WorkerIds : ~Alive(w) /\ ~wRunning[w]

\* the step in which the Stop call of caller c returns nil
StopReturnsNil(c) ==
    cst[c].pc = "stop_wait" /\ cst'[c].pc = "idle" /\ ret'.res = "nil"

\* C5: when pool Stop returns nil, the goroutine of every worker that was
\* live in the slice when that Stop began has exited.
C5_CleanStopMeansAllExited ==
    [][\A c \in Callers :
        StopReturnsNil(c) =>
            \A w \in stoppers[cst[c].stop].began : ~Alive(w)']_vars

\* a Stop whose caller left with the timeout error, all of whose goroutines ended
StopEndedAfterTimeout(id) ==
    /\ Done(id)
    /\ \A c \in Callers : cst[c].stop # id

\* C6: after pool Stop returned the timeout error its goroutines go on until
\* every worker that was live in the slice when the Stop began is stopped:
\* when the last of them has ended, each such worker has its stop signal
\* closed, so that its goroutine exits at its next select.
C6_TimedOutStopStillStopsAll ==
    \A id \in StopIds :
        StopEndedAfterTimeout(id) =>
            \A w \in stoppers[id].began : wStopCh[w] = "closed"

\* a caller about to write p.workers, and a caller or goroutine that read
\* p.workers for a write still to come or is about to read it
SliceWriter(c) == cst[c].pc \in {"run_append", "grow_append"} \/
                  (cst[c].pc = "shrink" /\ cst[c].i >= conf.WorkerSize)
SliceUser(c) == cst[c].pc \in {"run", "run_append", "grow", "grow_append", "shrink"}

\* C7: the worker slice is written only by a caller holding the pool's mutex,
\* and never while another operation is reading or writing it.
C7_SliceWrittenUnderLock ==
    \A c \in Callers :
        SliceWriter(c) =>
            /\ mutex = c
            /\ \A d \in Callers \ {c} : ~SliceUser(d)
            /\ \A id \in StopIds : stoppers[id].phase # "called"

\* C22: with no call of worker.Run or worker.Stop in progress, a worker whose
\* flag says running has a live goroutine, and no call of worker.Stop ends in
\* a panic.
C22_WorkerRestartable ==
    /\ ret.res # "panic"
    /\ Quiet => \A w \in WorkerIds : wRunning[w] => Alive(w)
====
